---- MODULE Spec2Model ----
(***************************************************************************)
(* A model of Proofreader.py: the punctuation normalizer, the chapter      *)
(* boundary trimmer, the correction and grammar adapters, the per-file     *)
(* pipeline and the batch driver.                                          *)
(*                                                                         *)
(* Text is a sequence of Unicode code points (Python's ord), so that the   *)
(* character classes of the regular expressions (the CJK range, \w, \B)    *)
(* are computed and not assumed.                                           *)
(***************************************************************************)
EXTENDS Integers, Sequences, FiniteSets, TLC

VARIABLES
    \* the normalizer, called on its own
    ntext,      \* the argument of the latest call
    nout,       \* the value the latest call returned
    ncalls,     \* number of calls made so far
    rep_idx,    \* rep.idx of the latest call's rep object when the call returned
    prev_idx,   \* rep_idx as it was before the latest call (history)
    \* the trimmer, called on its own
    tcontent,   \* content
    ttitle,     \* chapter_title
    tfirst,     \* clean_chapter_content(content, chapter_title)
    tsecond,    \* clean_chapter_content(tfirst, chapter_title)
    tpasses,    \* how many of the two calls have been made
    \* the grammar check, called on its own
    gtext,      \* text
    gparser,    \* parser: "parser" or "None"
    graises,    \* the sentences (by position) on which the parser raised
    gcalls,     \* the sentences handed to the parser, in call order
    gissues,    \* the list returned
    gdone,      \* the call has returned
    \* the batch: main() and process_file()
    pc,                 \* where main() is
    book_exists,        \* book_path.is_dir()
    folder,             \* the *.txt files of the folder: file number -> content
    corrector_instance, \* "unset", "corrector" or "None"
    parser,             \* "unset", "parser" or "None"
    txt_files,          \* natsorted(glob("*.txt")): file numbers in processing order
    file_i,             \* i of main's loop: position in txt_files of the file in process
    proc,               \* per file: how far process_file got and its local values
    reads,              \* the read_text calls made, in order (file numbers)
    writes,             \* the file writes made, in order
    disk_text,          \* output directory: file number -> corrected text or Absent
    disk_report         \* output directory: file number -> report or Absent

nvars == <<ntext, nout, ncalls, rep_idx, prev_idx>>
tvars == <<tcontent, ttitle, tfirst, tsecond, tpasses>>
gvars == <<gtext, gparser, graises, gcalls, gissues, gdone>>
dvars == <<pc, book_exists, folder, corrector_instance, parser, txt_files, file_i, proc,
           reads, writes, disk_text, disk_report>>
vars == <<nvars, tvars, gvars, dvars>>

(***************************************************************************)
(* Characters, by code point.                                              *)
(***************************************************************************)
QUOTE == 34
\* "
NEWLINE == 10
UNDERSCORE == 95
DOT == 46
CJK_FIRST == 19968
\* 一
CJK_LAST == 40959
\* 鿿
CH_LE == 20102
\* 了
OPEN_MARK == 12300
\* 「
CLOSE_MARK == 12301
\* 」

\* ',.!?:;()[]<>'
ascii_punct == <<44, 46, 33, 63, 58, 59, 40, 41, 91, 93, 60, 62>>
\* '，。！？：；（）【】》《'  (the second string of the zip, in the source's order)
chinese_punct == <<65292, 12290, 65281, 65311, 65306, 65307, 65288, 65289,
                   12304, 12305, 12299, 12298>>

\* Sequences over S of length 0..n
SeqUpTo(S, n) == UNION {[1..k -> S] : k \in 0..n}

\* s[lo..hi] (1-based, inclusive; empty when hi < lo)
Slice(s, lo, hi) == [k \in 1..(IF hi >= lo THEN hi - lo + 1 ELSE 0) |-> s[lo + k - 1]]

(***************************************************************************)
(* convert_punctuation_to_chinese                                          *)
(***************************************************************************)
\* punct_map = {ord(a): b for a, b in zip(...)}: the table lookup of one character
punct_map(c) ==
    IF \E k \in 1..Len(ascii_punct) : ascii_punct[k] = c
    THEN chinese_punct[CHOOSE k \in 1..Len(ascii_punct) : ascii_punct[k] = c]
    ELSE c

\* text.translate(punct_map)
translate(text) == [i \in 1..Len(text) |-> punct_map(text[i])]

\* \w of a str pattern: [a-zA-Z0-9_] and, of the non-ASCII characters the model
\* uses, the CJK ideographs (str.isalnum() is true of them and false of the
\* full-width punctuation and of the corner brackets)
IsWord(c) ==
    \/ c \in 48..57
    \/ c \in 65..90
    \/ c \in 97..122
    \/ c = UNDERSCORE
    \/ c \in CJK_FIRST..CJK_LAST

\* [一-鿿，。！？；：]
LookbehindClass(c) ==
    \/ c \in CJK_FIRST..CJK_LAST
    \/ c \in {65292, 12290, 65281, 65311, 65307, 65306}

\* \B at the gap before position i (between s[i-1] and s[i]); i \in 1..Len(s)+1
NotBoundary(s, i) ==
    LET before == IF i > 1 THEN IsWord(s[i - 1]) ELSE FALSE
        after  == IF i <= Len(s) THEN IsWord(s[i]) ELSE FALSE
    IN  before = after

\* the pattern (?<=[一-鿿，。！？；：])"|\B"(?=\B) matches at position i
QuoteMatches(s, i) ==
    /\ s[i] = QUOTE
    /\ \/ i > 1 /\ LookbehindClass(s[i - 1])
       \/ NotBoundary(s, i) /\ NotBoundary(s, i + 1)

\* rep.idx before the first match of a call: rep is a new function object in
\* every call, so getattr(rep, 'idx', 0) finds no attribute and gives 0,
\* whatever the previous call's rep object was left with
rep_idx_shared(left_behind) == left_behind
rep_idx_initial(left_behind) == 0

\* rep(m): rep.idx += 1; '「' if rep.idx % 2 else '」'
rep(idx) == IF idx % 2 = 1 THEN OPEN_MARK ELSE CLOSE_MARK

\* re.sub(pattern, rep, text): scans s left to right from position i with the
\* counter at idx; gives the rewritten text and the final counter
RECURSIVE re_sub(_, _, _, _)
re_sub(s, i, idx, acc) ==
    IF i > Len(s) THEN [text |-> acc, idx |-> idx]
    ELSE IF QuoteMatches(s, i)
         THEN re_sub(s, i + 1, idx + 1, Append(acc, rep(idx + 1)))
         ELSE re_sub(s, i + 1, idx, Append(acc, s[i]))

\* the whole function; left_behind is the counter of the previous call's rep
convert_punctuation(text, left_behind) ==
    re_sub(translate(text), 1, rep_idx_initial(left_behind), <<>>)

convert_punctuation_to_chinese(text) == convert_punctuation(text, 0).text

(***************************************************************************)
(* clean_chapter_content                                                   *)
(***************************************************************************)
\* the line boundaries of str.splitlines()
LineBreaks == {10, 11, 12, 13, 28, 29, 30, 133, 8232, 8233}
\* the characters str.strip() removes
Whitespace == {9, 10, 11, 12, 13, 28, 29, 30, 31, 32, 133, 160, 5760, 8232, 8233,
               8239, 8287, 12288} \cup (8192..8202)

\* content.splitlines(): \r\n is one boundary, and a final boundary opens no
\* further (empty) line
RECURSIVE splitlines_from(_, _, _, _)
splitlines_from(s, i, cur, acc) ==
    IF i > Len(s) THEN (IF cur # <<>> THEN Append(acc, cur) ELSE acc)
    ELSE IF s[i] = 13 /\ i < Len(s) /\ s[i + 1] = 10
         THEN splitlines_from(s, i + 2, <<>>, Append(acc, cur))
    ELSE IF s[i] \in LineBreaks
         THEN splitlines_from(s, i + 1, <<>>, Append(acc, cur))
    ELSE splitlines_from(s, i + 1, Append(cur, s[i]), acc)

splitlines(s) == splitlines_from(s, 1, <<>>, <<>>)

\* '\n'.join(lines)
RECURSIVE join(_)
join(lines) ==
    IF lines = <<>> THEN <<>>
    ELSE IF Len(lines) = 1 THEN lines[1]
    ELSE lines[1] \o <<NEWLINE>> \o join(Tail(lines))

\* s.strip()
strip(s) ==
    IF \A k \in 1..Len(s) : s[k] \in Whitespace THEN <<>>
    ELSE SubSeq(s,
                CHOOSE k \in 1..Len(s) :
                    s[k] \notin Whitespace /\ \A m \in 1..(k - 1) : s[m] \in Whitespace,
                CHOOSE k \in 1..Len(s) :
                    s[k] \notin Whitespace /\ \A m \in (k + 1)..Len(s) : s[m] \in Whitespace)

\* length of the common run of a[i..] and b[j..] (0-based, below ahi and bhi)
RECURSIVE run_length(_, _, _, _, _, _)
run_length(a, b, i, j, ahi, bhi) ==
    IF i < ahi /\ j < bhi /\ a[i + 1] = b[j + 1]
    THEN 1 + run_length(a, b, i + 1, j + 1, ahi, bhi)
    ELSE 0

\* SequenceMatcher.find_longest_match(alo, ahi, blo, bhi) without junk (isjunk
\* is None, and autojunk only acts on a second sequence of 200 or more
\* elements): the longest block, of those the one starting earliest in a, of
\* those the one starting earliest in b; <<alo, blo, 0>> when nothing matches
find_longest_match(a, b, alo, ahi, blo, bhi) ==
    LET P == {<<i, j>> \in (alo..(ahi - 1)) \X (blo..(bhi - 1)) : a[i + 1] = b[j + 1]}
        len(p) == run_length(a, b, p[1], p[2], ahi, bhi)
    IN  IF P = {} THEN <<alo, blo, 0>>
        ELSE LET best == CHOOSE p \in P :
                            \A q \in P :
                                \/ len(p) > len(q)
                                \/ len(p) = len(q) /\ p[1] < q[1]
                                \/ len(p) = len(q) /\ p[1] = q[1] /\ p[2] <= q[2]
             IN  <<best[1], best[2], len(best)>>

\* the total size of SequenceMatcher.get_matching_blocks(): the longest block,
\* then the same to its left and to its right
RECURSIVE matching_size(_, _, _, _, _, _)
matching_size(a, b, alo, ahi, blo, bhi) ==
    LET m == find_longest_match(a, b, alo, ahi, blo, bhi)
        i == m[1]
        j == m[2]
        k == m[3]
    IN  IF k = 0 THEN 0
        ELSE k + (IF alo < i /\ blo < j
                  THEN matching_size(a, b, alo, i, blo, j) ELSE 0)
               + (IF i + k < ahi /\ j + k < bhi
                  THEN matching_size(a, b, i + k, ahi, j + k, bhi) ELSE 0)

\* sim(a, b) > 0.8, with sim = SequenceMatcher(None, a, b).ratio() = 2.0*M/T,
\* and 1.0 when both are empty: 2M/T > 4/5 in integers
sim_above_threshold(a, b) ==
    LET T == Len(a) + Len(b)
        M == matching_size(a, b, 0, Len(a), 0, Len(b))
    IN  IF T = 0 THEN TRUE ELSE 10 * M > 4 * T

\* pat occurs in s
contains(s, pat) ==
    \E k \in 0..(Len(s) - Len(pat)) : \A m \in 1..Len(pat) : s[k + m] = pat[m]

\* 本章完, 本章结束, and the full-width parentheses
BEN_ZHANG_WAN == <<26412, 31456, 23436>>
BEN_ZHANG_JIESHU == <<26412, 31456, 32467, 26463>>
FW_LPAREN == 65288
FW_RPAREN == 65289

\* re.search(r'（?本章完|本章结束|本章完）', line)
end_marker(line) ==
    \/ contains(line, <<FW_LPAREN>> \o BEN_ZHANG_WAN) \/ contains(line, BEN_ZHANG_WAN)
    \/ contains(line, BEN_ZHANG_JIESHU)
    \/ contains(line, BEN_ZHANG_WAN \o <<FW_RPAREN>>)

\* the first loop: i runs over the lines (0-based); start follows the leading
\* run of title-like lines and the loop breaks at the first other line
RECURSIVE scan_start_global(_, _, _, _)
scan_start_global(lines, title, i, start) ==
    IF i >= Len(lines) THEN start
    ELSE IF sim_above_threshold(strip(lines[i + 1]), title)
         THEN scan_start_global(lines, title, i + 1, i + 1)
         ELSE scan_start_global(lines, title, i + 1, start)

RECURSIVE scan_start(_, _, _, _)
scan_start(lines, title, i, start) ==
    IF i >= Len(lines) THEN start
    ELSE IF sim_above_threshold(strip(lines[i + 1]), title)
         THEN scan_start(lines, title, i + 1, i + 1)
         ELSE start

\* the second loop: i runs from len(lines)-1 down to start (0-based)
RECURSIVE scan_end(_, _, _, _)
scan_end(lines, start, i, end) ==
    IF i < start THEN end
    ELSE IF end_marker(lines[i + 1])
         THEN scan_end(lines, start, i - 1, i)
         ELSE end

clean_chapter_content(content, chapter_title) ==
    LET lines == splitlines(content)
        start == scan_start(lines, chapter_title, 0, 0)
        end   == scan_end(lines, start, Len(lines) - 1, Len(lines))
    IN  IF lines = <<>> THEN content
        ELSE join(Slice(lines, start + 1, end))

(***************************************************************************)
(* check_grammar_with_hanlp                                                *)
(***************************************************************************)
\* [。！？!?；;]
SentenceEnds == {12290, 65281, 65311, 33, 63, 65307, 59}
MIN_SENTENCE == 3
MAX_SENTENCE == 400

\* re.split(r'[。！？!?；;]', text): the text before the first sentence end,
\* between each two neighbouring ones, and after the last (empty pieces too)
re_split(text) ==
    LET ends == {k \in 1..Len(text) : text[k] \in SentenceEnds}
        nth(n) == CHOOSE e \in ends : Cardinality({x \in ends : x < e}) = n - 1
        count == Cardinality(ends)
    IN  [n \in 1..(count + 1) |->
            SubSeq(text,
                   IF n = 1 THEN 1 ELSE nth(n - 1) + 1,
                   IF n = count + 1 THEN Len(text) ELSE nth(n) - 1)]

\* [s.strip() for s in sentences if len(s.strip()) > 0]
sentences_of(text) ==
    LET parts == re_split(text)
        stripped == [k \in 1..Len(parts) |-> strip(parts[k])]
    IN  SelectSeq(stripped, LAMBDA s : Len(s) > 0)

\* not (3 <= len(sent) <= 400) is the test that skips a sentence
length_ok_exclusive(sent) == MIN_SENTENCE < Len(sent) /\ Len(sent) < MAX_SENTENCE
length_ok(sent) == MIN_SENTENCE <= Len(sent) /\ Len(sent) <= MAX_SENTENCE

\* the dictionary appended for a sentence
issue(sent) ==
    [type |-> "possibly missing verb", context |-> sent,
     suggestion |-> "check for a verb before le"]

\* the loop over the sentences from the k-th on; raises is the set of
\* sentences (by position in the list) on which parser([sent]) raises
RECURSIVE grammar_loop(_, _, _, _, _)
grammar_loop(sents, k, raises, calls, issues) ==
    IF k > Len(sents) THEN [calls |-> calls, issues |-> issues]
    ELSE IF ~length_ok(sents[k])
         THEN grammar_loop(sents, k + 1, raises, calls, issues)
    ELSE IF k \in raises
         THEN grammar_loop(sents, k + 1, raises, Append(calls, sents[k]), issues)
    ELSE IF \E m \in 1..Len(sents[k]) : sents[k][m] = CH_LE
         THEN grammar_loop(sents, k + 1, raises, Append(calls, sents[k]),
                           Append(issues, issue(sents[k])))
    ELSE grammar_loop(sents, k + 1, raises, Append(calls, sents[k]), issues)

\* check_grammar_with_hanlp(text, parser): the issues returned and, beside
\* them, the arguments of the parser calls made; parser is "None" or "parser"
check_grammar_with_hanlp(text, prs, raises) ==
    IF prs = "None" THEN [calls |-> <<>>, issues |-> <<>>]
    ELSE grammar_loop(sentences_of(text), 1, raises, <<>>, <<>>)

(***************************************************************************)
(* Each part of the program is also run on its own; the parts not running  *)
(* rest in these values.                                                   *)
(***************************************************************************)
Absent == "absent"
Incomplete == "incomplete"

IdleNormalizer ==
    /\ ntext = <<>>
    /\ nout = <<>>
    /\ ncalls = 0
    /\ rep_idx = 0
    /\ prev_idx = 0

IdleTrimmer ==
    /\ tcontent = <<>>
    /\ ttitle = <<>>
    /\ tfirst = <<>>
    /\ tsecond = <<>>
    /\ tpasses = 0

IdleGrammar ==
    /\ gtext = <<>>
    /\ gparser = "None"
    /\ graises = {}
    /\ gcalls = <<>>
    /\ gissues = <<>>
    /\ gdone = FALSE

IdleBatch ==
    /\ pc = "idle"
    /\ book_exists = FALSE
    /\ folder = <<>>
    /\ corrector_instance = "unset"
    /\ parser = "unset"
    /\ txt_files = <<>>
    /\ file_i = 0
    /\ proc = <<>>
    /\ reads = <<>>
    /\ writes = <<>>
    /\ disk_text = <<>>
    /\ disk_report = <<>>

(***************************************************************************)
(* The normalizer called on one text (SpecPunct) and on a sequence of      *)
(* texts, as the batch does file after file (SpecQuote).                   *)
(***************************************************************************)
MaxPunctLen == 3
MaxQuoteLen == 4
MaxCalls == 2

PunctAlphabet ==
    {ascii_punct[k] : k \in 1..Len(ascii_punct)}
        \cup {QUOTE, 32, 97, 20320, 65292, OPEN_MARK}     \* " space a 你 ， 「
QuoteAlphabet == {QUOTE, 97, 20320}                        \* " a 你

InitPunct ==
    /\ ntext \in SeqUpTo(PunctAlphabet, MaxPunctLen)
    /\ nout = <<>>
    /\ ncalls = 0
    /\ rep_idx = 0
    /\ prev_idx = 0
    /\ IdleTrimmer /\ IdleGrammar /\ IdleBatch

InitQuote == IdleNormalizer /\ IdleTrimmer /\ IdleGrammar /\ IdleBatch

\* one call of convert_punctuation_to_chinese(text)
Normalize(text) ==
    LET r == convert_punctuation(text, rep_idx)
    IN  /\ ntext' = text
        /\ nout' = r.text
        /\ ncalls' = ncalls + 1
        /\ rep_idx' = r.idx
        /\ prev_idx' = rep_idx
        /\ UNCHANGED <<tvars, gvars, dvars>>

NormalizeOnce ==
    /\ ncalls = 0
    /\ Normalize(ntext)

NormalizeNext ==
    /\ ncalls < MaxCalls
    /\ \E t \in SeqUpTo(QuoteAlphabet, MaxQuoteLen) : Normalize(t)

SpecPunct == InitPunct /\ [][NormalizeOnce]_vars
SpecQuote == InitQuote /\ [][NormalizeNext]_vars

(***************************************************************************)
(* Claims about the normalizer.                                            *)
(***************************************************************************)
\* the full-width characters in the order the specification lists them:
\* ，。！？：；（）【】《》
listed_punct == <<65292, 12290, 65281, 65311, 65306, 65307, 65288, 65289,
                  12304, 12305, 12298, 12299>>

\* C4: after a call, every position that held the k-th character of
\* , . ! ? : ; ( ) [ ] < > holds the k-th character of ，。！？：；（）【】《》
\* (so < gives 《 and > gives 》), whatever stands around it.
C4_PunctuationTable ==
    ncalls >= 1 =>
        /\ Len(nout) = Len(ntext)
        /\ \A i \in 1..Len(ntext) : \A k \in 1..Len(ascii_punct) :
              ntext[i] = ascii_punct[k] => nout[i] = listed_punct[k]

\* position i held a straight quote and the call replaced it
Replaced(i) == ntext[i] = QUOTE /\ nout[i] # QUOTE
\* how many quotes the call replaced at positions 1..i
Rank(i) == Cardinality({j \in 1..i : Replaced(j)})

\* C5: in every call, also one that follows calls which replaced an odd number
\* of quotes, the replaced quotes alternate in document order starting with the
\* opening mark, so 2k replaced quotes give k opening and k closing marks.
C5_QuoteAlternation ==
    ncalls >= 1 =>
        /\ Len(nout) = Len(ntext)
        /\ \A i \in 1..Len(ntext) :
              Replaced(i) =>
                  nout[i] = (IF Rank(i) % 2 = 1 THEN OPEN_MARK ELSE CLOSE_MARK)
        /\ Rank(Len(ntext)) % 2 = 0 =>
              /\ 2 * Cardinality({i \in 1..Len(ntext) : Replaced(i) /\ nout[i] = OPEN_MARK})
                    = Rank(Len(ntext))
              /\ 2 * Cardinality({i \in 1..Len(ntext) : Replaced(i) /\ nout[i] = CLOSE_MARK})
                    = Rank(Len(ntext))

\* a second call, made after a call that replaced an odd number of quotes,
\* has replaced four quotes
C5_Witness ==
    /\ ncalls = 2
    /\ prev_idx % 2 = 1
    /\ Rank(Len(ntext)) = 4

\* C6, read in the way most favourable to the code: adjacency is judged on the
\* text after the table lookup, "CJK punctuation" is the six marks of the
\* pattern, and "not enclosed by word characters" is no word character on
\* either side.
AdjacentToCJK(s, i) ==
    \/ i > 1 /\ LookbehindClass(s[i - 1])
    \/ i < Len(s) /\ LookbehindClass(s[i + 1])
NotEnclosedByWord(s, i) ==
    /\ i > 1 => ~IsWord(s[i - 1])
    /\ i < Len(s) => ~IsWord(s[i + 1])
QuoteToReplace(s, i) ==
    s[i] = QUOTE /\ (AdjacentToCJK(s, i) \/ NotEnclosedByWord(s, i))

\* C6: every straight quote that has a CJK character or CJK punctuation mark
\* immediately before or immediately after it, or that is not enclosed by word
\* characters, becomes a Chinese quotation mark; every character that is
\* neither such a quote nor one of the twelve mapped characters is unchanged.
C6_QuoteRule ==
    ncalls >= 1 =>
        /\ Len(nout) = Len(ntext)
        /\ \A i \in 1..Len(ntext) :
              LET t == translate(ntext) IN
              /\ QuoteToReplace(t, i) => nout[i] \in {OPEN_MARK, CLOSE_MARK}
              /\ (~QuoteToReplace(t, i) /\ ntext[i] = t[i]) => nout[i] = ntext[i]

(***************************************************************************)
(* The trimmer called on a chapter and then on its own result (SpecTrim).  *)
(***************************************************************************)
MaxLines == 4

TITLE == <<84, 105, 116, 108, 101>>
\* "Title"
TrimTitles == {TITLE}

TrimLines ==
    { TITLE,
      <<32, 84, 105, 116, 108, 101, 115, 32>>,      \* " Titles ": 10/11 once stripped
      <<84, 105, 116, 108, 120>>,                   \* "Titlx": exactly 0.8
      <<97, 98>>,                                   \* "ab"
      <<>>,                                         \* an empty line
      BEN_ZHANG_WAN,                                \* 本章完
      <<FW_LPAREN>> \o BEN_ZHANG_JIESHU \o <<FW_RPAREN>> }   \* （本章结束）

\* the lines joined by \n, with and without a final newline
TrimContents ==
    { join(ls) \o end : ls \in SeqUpTo(TrimLines, MaxLines), end \in {<<>>, <<NEWLINE>>} }

InitTrim ==
    /\ tcontent \in TrimContents
    /\ ttitle \in TrimTitles
    /\ tfirst = <<>>
    /\ tsecond = <<>>
    /\ tpasses = 0
    /\ IdleNormalizer /\ IdleGrammar /\ IdleBatch

TrimFirst ==
    /\ tpasses = 0
    /\ tfirst' = clean_chapter_content(tcontent, ttitle)
    /\ tpasses' = 1
    /\ UNCHANGED <<tcontent, ttitle, tsecond, nvars, gvars, dvars>>

TrimAgain ==
    /\ tpasses = 1
    /\ tsecond' = clean_chapter_content(tfirst, ttitle)
    /\ tpasses' = 2
    /\ UNCHANGED <<tcontent, ttitle, tfirst, nvars, gvars, dvars>>

NextTrim == TrimFirst \/ TrimAgain
SpecTrim == InitTrim /\ [][NextTrim]_vars

(***************************************************************************)
(* Claims about the trimmer.                                               *)
(***************************************************************************)
TitleLike(line, title) == sim_above_threshold(strip(line), title)

\* no line of the text matches either heuristic
NoLineMatches(content, title) ==
    \A k \in 1..Len(splitlines(content)) :
        /\ ~TitleLike(splitlines(content)[k], title)
        /\ ~end_marker(splitlines(content)[k])

\* C7: a text none of whose lines is title-like or holds an end marker is
\* returned unmodified, and trimming the result again returns it unchanged,
\* also when the text ends with a newline or with empty lines.
C7_TrimIdentity ==
    (tpasses = 2 /\ NoLineMatches(tcontent, ttitle)) =>
        /\ tfirst = tcontent
        /\ tsecond = tfirst

\* the length of the longest run of leading title-like lines
LeadingRun(lines, title) ==
    CHOOSE m \in 0..Len(lines) :
        /\ \A k \in 1..m : TitleLike(lines[k], title)
        /\ m < Len(lines) => ~TitleLike(lines[m + 1], title)
\* the length of the longest run of trailing end-marker lines among the last n
TrailingRun(lines, n) ==
    CHOOSE m \in 0..n :
        /\ \A k \in (Len(lines) - m + 1)..Len(lines) : end_marker(lines[k])
        /\ m < n => ~end_marker(lines[Len(lines) - m])

\* what C8 says the trimmer returns
ExpectedTrim(content, title) ==
    LET lines == splitlines(content)
        p == LeadingRun(lines, title)
        q == TrailingRun(lines, Len(lines) - p)
    IN  join(Slice(lines, p + 1, Len(lines) - q))

BODY1 == <<98, 111, 100, 121, 49>>
BODY2 == <<98, 111, 100, 121, 50>>

\* C8: for a non-empty text the trimmer returns the lines left after removing
\* the longest run of leading title-like lines and then, of the remaining
\* lines, the longest run of trailing end-marker lines (so a matching line
\* behind a non-matching one is kept, and trim-start never exceeds trim-end);
\* [Title, Title, body1, body2, 本章完] with title Title gives [body1, body2].
C8_TrimBoundary ==
    /\ (tpasses >= 1 /\ tcontent # <<>>) => tfirst = ExpectedTrim(tcontent, ttitle)
    /\ tpasses >= 1 =>
          clean_chapter_content(join(<<TITLE, TITLE, BODY1, BODY2, BEN_ZHANG_WAN>>), TITLE)
              = join(<<BODY1, BODY2>>)

\* a chapter with a leading title line and a trailing end marker removed, and
\* with a title-like line kept behind a body line
C8_Witness ==
    /\ tpasses >= 1
    /\ LET lines == splitlines(tcontent) IN
          /\ Len(lines) = 4
          /\ LeadingRun(lines, ttitle) = 1
          /\ TrailingRun(lines, 3) = 1
          /\ TitleLike(lines[3], ttitle)
          /\ tfirst = join(<<lines[2], lines[3]>>)

(***************************************************************************)
(* The grammar check called on a text (SpecGrammar).                       *)
(***************************************************************************)
MaxSegments == 3

\* n times the letter x
Filler(n) == [k \in 1..n |-> 120]

\* pieces of text, each ending in one of the seven sentence ends
Segments ==
    { <<32, CH_LE, 97, 32, 65307>> \o <<CH_LE, 97, 98, 12290>>,  \* " 了a ；了ab。"  2 and 3
      <<CH_LE>> \o Filler(MAX_SENTENCE - 1) \o <<65281>>,        \* 了x...x！   400
      <<CH_LE>> \o Filler(MAX_SENTENCE) \o <<63>>,               \* 了x...x?    401
      <<97, 98, 99, 33>> \o <<32, CH_LE, 32, 65311>>,            \* "abc! 了 ？"  3 and 1
      <<32, 32, 59>> }                                           \* "  ;"       blank

RECURSIVE concat(_)
concat(ss) == IF ss = <<>> THEN <<>> ELSE Head(ss) \o concat(Tail(ss))

\* up to MaxSegments pieces, then text without a sentence end, or nothing
GrammarTexts ==
    { concat(ss) \o last : ss \in SeqUpTo(Segments, MaxSegments),
                           last \in {<<>>, <<CH_LE, 98, 99>>} }

InitGrammar ==
    /\ gtext \in GrammarTexts
    /\ gparser \in {"parser", "None"}
    /\ graises = {}
    /\ gcalls = <<>>
    /\ gissues = <<>>
    /\ gdone = FALSE
    /\ IdleNormalizer /\ IdleTrimmer /\ IdleBatch

\* the positions in the sentence list of the sentences the loop hands on
ParsedPositions(text) ==
    {k \in 1..Len(sentences_of(text)) : length_ok(sentences_of(text)[k])}

\* one call of check_grammar_with_hanlp(text, parser); which parser calls
\* raise is the parser's choice
CheckGrammarOnce ==
    /\ ~gdone
    /\ \E raises \in SUBSET ParsedPositions(gtext) :
          LET r == check_grammar_with_hanlp(gtext, gparser, raises)
          IN  /\ gparser = "None" => raises = {}
              /\ graises' = raises
              /\ gcalls' = r.calls
              /\ gissues' = r.issues
    /\ gdone' = TRUE
    /\ UNCHANGED <<gtext, gparser, nvars, tvars, dvars>>

SpecGrammar == InitGrammar /\ [][CheckGrammarOnce]_vars

(***************************************************************************)
(* Claims about the grammar check.                                         *)
(***************************************************************************)
\* where a sentence-end-free stretch of the text begins, and where the stretch
\* that begins at a ends
IsEnd(text, k) == text[k] \in SentenceEnds
StretchStarts(text) ==
    {a \in 1..Len(text) : ~IsEnd(text, a) /\ (a = 1 \/ IsEnd(text, a - 1))}
StretchEnd(text, a) ==
    CHOOSE b \in a..Len(text) :
        /\ b = Len(text) \/ IsEnd(text, b + 1)
        /\ \A k \in a..b : ~IsEnd(text, k)
\* the stretches in text order, trimmed
Stretches(text) ==
    LET starts == StretchStarts(text)
        nth(n) == CHOOSE a \in starts : Cardinality({x \in starts : x < a}) = n - 1
    IN  [n \in 1..Cardinality(starts) |-> strip(SubSeq(text, nth(n), StretchEnd(text, nth(n))))]

\* the elements of seq at the positions in keep, in order
RECURSIVE Pick(_, _, _)
Pick(seq, keep, k) ==
    IF k > Len(seq) THEN <<>>
    ELSE (IF k \in keep THEN <<seq[k]>> ELSE <<>>) \o Pick(seq, keep, k + 1)

HasLe(sent) == \E m \in 1..Len(sent) : sent[m] = CH_LE

\* C10: with a parser, the parser is handed exactly the trimmed pieces of the
\* text (split at 。！？!?；;) of length 3 to 400, in text order, never one of
\* length 2 or 401; the result holds, in that order, one issue for each of them
\* that contains 了 and whose parse did not raise; a raising parse skips its own
\* sentence only.
C10_SentenceFilter ==
    (gdone /\ gparser = "parser") =>
        LET pieces == Stretches(gtext)
            n == Len(pieces)
            passed == {k \in 1..n : Len(pieces[k]) >= 3 /\ Len(pieces[k]) <= 400}
            \* position of piece k in the list of non-empty sentences
            pos(k) == Cardinality({m \in 1..k : Len(pieces[m]) > 0})
            flagged == {k \in passed : HasLe(pieces[k]) /\ pos(k) \notin graises}
        IN  /\ gcalls = Pick(pieces, passed, 1)
            /\ \A m \in 1..Len(gcalls) : Len(gcalls[m]) \notin {2, 401}
            /\ [m \in 1..Len(gissues) |-> gissues[m].context] = Pick(pieces, flagged, 1)
            /\ \A m \in 1..Len(gissues) : gissues[m] = issue(gissues[m].context)

\* a text with sentences of length 2, 3, 400 and 401: those of length 3 and
\* 400 were parsed, a parse raised, and a later sentence still gave an issue
C10_Witness ==
    /\ gdone /\ gparser = "parser"
    /\ \E k \in 1..Len(sentences_of(gtext)) : Len(sentences_of(gtext)[k]) = 2
    /\ \E k \in 1..Len(sentences_of(gtext)) : Len(sentences_of(gtext)[k]) = 401
    /\ \E m \in 1..Len(gcalls) : Len(gcalls[m]) = 3
    /\ \E m \in 1..Len(gcalls) : Len(gcalls[m]) = 400
    /\ \E k \in graises : \E m \in 1..Len(gissues) :
          \E later \in (k + 1)..Len(sentences_of(gtext)) :
              gissues[m].context = sentences_of(gtext)[later]

(***************************************************************************)
(* correct_single_text, and the parts of process_file and main             *)
(***************************************************************************)
\* what corrector_instance.correct(text) may do: raise, return the text with
\* no details, or return a changed text (the first 你 made 好) with one detail
\* (wrong, right, begin, end); the service is outside the program, so all
\* three are possible
ServiceOutcomes(text) ==
    {[raises |-> TRUE, text |-> <<>>, details |-> <<>>],
     [raises |-> FALSE, text |-> text, details |-> <<>>]}
    \cup {[raises |-> FALSE,
           text |-> [text EXCEPT ![p] = 22909],
           details |-> << <<(<<20320>>), (<<22909>>), p - 1, p>> >>] :
          p \in {q \in 1..Len(text) : text[q] = 20320 /\ \A m \in 1..(q - 1) : text[m] # 20320}}

\* correct_single_text(text, corrector_instance), given what the service does;
\* escapes says whether an exception leaves the function
correct_single_text_unguarded(text, svc) ==
    IF svc.raises
    THEN [text |-> text, details |-> <<>>, escapes |-> TRUE]
    ELSE [text |-> svc.text, details |-> svc.details, escapes |-> FALSE]

correct_single_text(text, svc) ==
    IF svc.raises
    THEN [text |-> text, details |-> <<>>, escapes |-> FALSE]
    ELSE [text |-> svc.text, details |-> svc.details, escapes |-> FALSE]

\* os.path.splitext(name)[0]: the name up to its last dot, unless only dots
\* stand before it
splitext_root(name) ==
    LET dots == {k \in 1..Len(name) : name[k] = DOT}
        last == CHOOSE k \in dots : \A m \in dots : m <= k
    IN  IF dots # {} /\ (\E m \in 1..(last - 1) : name[m] # DOT)
        THEN SubSeq(name, 1, last - 1)
        ELSE name

\* os.path.splitext(name)[0].split('_', 1)[-1]
chapter_title(name) ==
    LET root == splitext_root(name)
        us == {k \in 1..Len(root) : root[k] = UNDERSCORE}
    IN  IF us = {} THEN root
        ELSE SubSeq(root, (CHOOSE k \in us : \A m \in us : k <= m) + 1, Len(root))

\* if err_details or grammar_issues
report_needed_spelling_only(err_details, grammar_issues) == err_details # <<>>
report_needed(err_details, grammar_issues) ==
    err_details # <<>> \/ grammar_issues # <<>>

\* what the report file holds: the name, the (wrong, right) of every detail and
\* the grammar issues
report_of(name, err_details, grammar_issues) ==
    [file |-> name,
     spelling |-> [k \in 1..Len(err_details) |-> <<err_details[k][1], err_details[k][2]>>],
     grammar |-> grammar_issues]

(***************************************************************************)
(* The batch (Spec): main() over a folder of chapter files.                *)
(***************************************************************************)
MaxFiles == 3

\* the n-th file of the folder: "n_Title.txt"
FileName(n) == <<48 + n, UNDERSCORE>> \o TITLE \o <<DOT, 116, 120, 116>>

\* chapters: a title line, a quoted sentence with 了 and an end marker
\* ("Title\n你,"你了".\n本章完\n"); no title line, a sentence of length 2 and
\* one with 了 ("你b;了cde\n"); an empty file
SampleTexts ==
    << TITLE \o <<NEWLINE, 20320, 44, QUOTE, 20320, CH_LE, QUOTE, 46, NEWLINE>>
             \o BEN_ZHANG_WAN \o <<NEWLINE>>,
       <<20320, 98, 59, CH_LE, 99, 100, 101, NEWLINE>>,
       <<>> >>

Folders ==
    { [k \in 1..n |-> SampleTexts[((k + r) % Len(SampleTexts)) + 1]] :
          n \in 0..MaxFiles, r \in 1..Len(SampleTexts) }

\* natsorted(book_path.glob("*.txt")): the names are "1_...", "2_...", so the
\* natural order is the order of the file numbers
natsorted_glob(files) == [k \in 1..Len(files) |-> k]

NotCalled ==
    [status |-> "pending", raised |-> FALSE, text |-> <<>>, converted |-> <<>>,
     corrected |-> <<>>, err_details |-> <<>>, grammar_issues |-> <<>>]

Init ==
    /\ pc = "start"
    /\ book_exists \in BOOLEAN
    /\ folder \in Folders
    /\ ~book_exists => folder = <<>>
    /\ corrector_instance = "unset"
    /\ parser = "unset"
    /\ txt_files = <<>>
    /\ file_i = 0
    /\ proc = [k \in 1..Len(folder) |-> NotCalled]
    /\ reads = <<>>
    /\ writes = <<>>
    /\ disk_text = [k \in 1..Len(folder) |-> Absent]
    /\ disk_report = [k \in 1..Len(folder) |-> Absent]
    /\ IdleNormalizer /\ IdleTrimmer /\ IdleGrammar

\* main, lines 163-171: the folder must exist
CheckFolder ==
    /\ pc = "start"
    /\ pc' = IF book_exists THEN "init_corrector" ELSE "returned"
    /\ UNCHANGED <<book_exists, folder, corrector_instance, parser, txt_files, file_i,
                   proc, reads, writes, disk_text, disk_report, nvars, tvars, gvars>>

\* main, lines 173-176: initialize_proofreader() gives a corrector or None
InitCorrector ==
    /\ pc = "init_corrector"
    /\ \E c \in {"corrector", "None"} :
          /\ corrector_instance' = c
          /\ pc' = IF c = "None" THEN "returned" ELSE "init_parser"
    /\ UNCHANGED <<book_exists, folder, parser, txt_files, file_i,
                   proc, reads, writes, disk_text, disk_report, nvars, tvars, gvars>>

\* main, line 177: initialize_hanlp_parser() gives a parser or None
InitParser ==
    /\ pc = "init_parser"
    /\ \E p \in {"parser", "None"} : parser' = p
    /\ pc' = "list_files"
    /\ UNCHANGED <<book_exists, folder, corrector_instance, txt_files, file_i,
                   proc, reads, writes, disk_text, disk_report, nvars, tvars, gvars>>

\* main, lines 179-184: list the files; none is an early return
ListFiles ==
    /\ pc = "list_files"
    /\ txt_files' = natsorted_glob(folder)
    /\ IF Len(folder) = 0
       THEN pc' = "returned" /\ UNCHANGED file_i
       ELSE pc' = "read" /\ file_i' = 1
    /\ UNCHANGED <<book_exists, folder, corrector_instance, parser,
                   proc, reads, writes, disk_text, disk_report, nvars, tvars, gvars>>

\* process_file returned: the loop takes the next file, or main prints the
\* closing lines
LoopOn ==
    IF file_i < Len(txt_files)
    THEN pc' = "read" /\ file_i' = file_i + 1
    ELSE pc' = "done" /\ UNCHANGED file_i

\* an exception left process_file: nothing in main catches it
Propagate == pc' = "crashed" /\ UNCHANGED file_i

\* process_file, lines 124-131
ReadFile ==
    /\ pc = "read"
    /\ LET f == txt_files[file_i] IN
          /\ reads' = Append(reads, f)
          /\ \E ok \in BOOLEAN :
                IF ok
                THEN /\ proc' = [proc EXCEPT ![f].status = "running", ![f].text = folder[f]]
                     /\ pc' = "correct"
                     /\ UNCHANGED file_i
                ELSE /\ proc' = [proc EXCEPT ![f].status = "read_failed"]
                     /\ LoopOn
    /\ UNCHANGED <<book_exists, folder, corrector_instance, parser, txt_files,
                   writes, disk_text, disk_report, nvars, tvars, gvars>>

\* process_file, lines 133-136
Correct ==
    /\ pc = "correct"
    /\ LET f == txt_files[file_i]
           cleaned == clean_chapter_content(proc[f].text, chapter_title(FileName(f)))
           converted == convert_punctuation_to_chinese(cleaned)
       IN  \E svc \in ServiceOutcomes(converted) :
              LET r == correct_single_text(converted, svc) IN
              /\ proc' = [proc EXCEPT ![f].converted = converted,
                                      ![f].raised = svc.raises,
                                      ![f].corrected = r.text,
                                      ![f].err_details = r.details,
                                      ![f].status =
                                          IF r.escapes THEN "correct_raised" ELSE @]
              /\ IF r.escapes THEN Propagate ELSE pc' = "grammar" /\ UNCHANGED file_i
    /\ UNCHANGED <<book_exists, folder, corrector_instance, parser, txt_files,
                   reads, writes, disk_text, disk_report, nvars, tvars, gvars>>

\* process_file, line 137
CheckGrammar ==
    /\ pc = "grammar"
    /\ LET f == txt_files[file_i] IN
          \E raises \in SUBSET ParsedPositions(proc[f].corrected) :
              /\ parser = "None" => raises = {}
              /\ proc' = [proc EXCEPT ![f].grammar_issues =
                            check_grammar_with_hanlp(proc[f].corrected, parser, raises).issues]
    /\ pc' = "write_text"
    /\ UNCHANGED <<book_exists, folder, corrector_instance, parser, txt_files, file_i,
                   reads, writes, disk_text, disk_report, nvars, tvars, gvars>>

\* process_file, lines 139-140: write_text either writes the file or raises,
\* leaving no file (it could not be opened) or an incomplete one
WriteText ==
    /\ pc = "write_text"
    /\ LET f == txt_files[file_i] IN
          \E ok \in BOOLEAN :
              /\ writes' = Append(writes, [file |-> f, kind |-> "text", ok |-> ok,
                                           content |-> proc[f].corrected])
              /\ IF ok
                 THEN /\ disk_text' = [disk_text EXCEPT ![f] = proc[f].corrected]
                      /\ pc' = "report"
                      /\ UNCHANGED <<file_i, proc>>
                 ELSE /\ proc' = [proc EXCEPT ![f].status = "text_write_failed"]
                      /\ Propagate
                      /\ \E left \in {Absent, Incomplete} :
                            disk_text' = [disk_text EXCEPT ![f] = left]
    /\ UNCHANGED <<book_exists, folder, corrector_instance, parser, txt_files,
                   reads, disk_report, nvars, tvars, gvars>>

\* process_file, lines 142-154: the report is written, or writing it raises
\* and leaves no file (it could not be opened) or an incomplete one
WriteReport ==
    /\ pc = "report"
    /\ LET f == txt_files[file_i]
           report == report_of(FileName(f), proc[f].err_details, proc[f].grammar_issues)
       IN  /\ report_needed(proc[f].err_details, proc[f].grammar_issues)
           /\ \E ok \in BOOLEAN :
                 /\ writes' = Append(writes, [file |-> f, kind |-> "report", ok |-> ok,
                                              content |-> report])
                 /\ IF ok
                    THEN /\ disk_report' = [disk_report EXCEPT ![f] = report]
                         /\ proc' = [proc EXCEPT ![f].status = "returned"]
                         /\ LoopOn
                    ELSE /\ \E left \in {Absent, Incomplete} :
                               disk_report' = [disk_report EXCEPT ![f] = left]
                         /\ proc' = [proc EXCEPT ![f].status = "report_write_failed"]
                         /\ Propagate
    /\ UNCHANGED <<book_exists, folder, corrector_instance, parser, txt_files,
                   reads, disk_text, nvars, tvars, gvars>>

\* process_file, lines 155-156: nothing to report
NoReport ==
    /\ pc = "report"
    /\ LET f == txt_files[file_i] IN
          /\ ~report_needed(proc[f].err_details, proc[f].grammar_issues)
          /\ proc' = [proc EXCEPT ![f].status = "returned"]
    /\ LoopOn
    /\ UNCHANGED <<book_exists, folder, corrector_instance, parser, txt_files,
                   reads, writes, disk_text, disk_report, nvars, tvars, gvars>>

Next ==
    \/ CheckFolder
    \/ InitCorrector
    \/ InitParser
    \/ ListFiles
    \/ ReadFile
    \/ Correct
    \/ CheckGrammar
    \/ WriteText
    \/ WriteReport
    \/ NoReport

Spec == Init /\ [][Next]_vars

(***************************************************************************)
(* Claims about the batch.                                                 *)
(***************************************************************************)
Files == 1..Len(folder)
\* main has ended: normally, by an early return, or by an uncaught exception
Terminated == pc \in {"done", "returned", "crashed"}
\* process_file was called on f and has ended, by a return or by an exception
Ended(f) ==
    proc[f].status \in {"read_failed", "returned", "text_write_failed",
                        "report_write_failed", "correct_raised"}
\* the writes made for file f, in order
WritesOf(f) == SelectSeq(writes, LAMBDA w : w.file = f)
HasWrite(f, kind) == \E m \in 1..Len(writes) : writes[m].file = f /\ writes[m].kind = kind
TextWritten(f) ==
    \E m \in 1..Len(writes) : writes[m].file = f /\ writes[m].kind = "text" /\ writes[m].ok

\* C1: whatever fails while one file is processed (the read, the correction
\* call, a sentence parse, the write of the corrected text, the write of the
\* report), the batch goes on: when main has ended, process_file has been
\* called on every file of the list, and every file whose own processing did
\* not fail has its corrected text in the output directory.
C1_BatchContinuation ==
    pc \in {"done", "crashed"} =>
        \A k \in 1..Len(txt_files) :
            /\ proc[txt_files[k]].status # "pending"
            /\ proc[txt_files[k]].status = "returned" =>
                  disk_text[txt_files[k]] = proc[txt_files[k]].corrected

\* C2: with an existing folder that holds a .txt file, the files are processed
\* if and only if the corrector initialized: without it nothing is read or
\* written; with it, and also when only the parser failed to initialize, every
\* file is processed and (unless its own read or write fails) written, the
\* grammar check giving no issue for any file when there is no parser.
C2_InitGate ==
    (Terminated /\ book_exists /\ Len(folder) >= 1) =>
        /\ corrector_instance = "None" =>
              /\ reads = <<>> /\ writes = <<>>
              /\ \A f \in Files : proc[f].status = "pending" /\ disk_text[f] = Absent
        /\ corrector_instance = "corrector" =>
              \A f \in Files :
                  /\ proc[f].status # "pending"
                  /\ parser = "None" => proc[f].grammar_issues = <<>>
                  /\ proc[f].status = "returned" => disk_text[f] = proc[f].corrected

C9_CorrectDegrades ==
    \A f \in Files :
        proc[f].raised =>
            /\ proc[f].status # "correct_raised"
            /\ proc[f].corrected = proc[f].converted
            /\ proc[f].err_details = <<>>
            /\ \A m \in 1..Len(writes) :
                  (writes[m].file = f /\ writes[m].kind = "text") =>
                      writes[m].content = proc[f].converted
            /\ Ended(f) => HasWrite(f, "text")
            /\ TextWritten(f) => disk_text[f] = proc[f].converted

\* the service raised on a chapter's text and the text is in the output
C9_Witness ==
    \E f \in Files :
        /\ proc[f].raised
        /\ proc[f].status = "returned"
        /\ proc[f].converted # <<>>
        /\ disk_text[f] = proc[f].converted

====
